---- MODULE Spec2Model ----
(***************************************************************************)
(* Signaling relay server of open-up-signaling: connection admission,     *)
(* the client registry, the room directory and the message dispatcher.    *)
(***************************************************************************)
EXTENDS Integers, Sequences, FiniteSets, TLC

\* ------------------------------------------------------------------ bounds
\* connections admitted over a run, rooms allocated by createRoom over a
\* run, and the longest member array a join may still extend: in the room
\* specification, ...
MaxClients == 2
MaxRooms == 1
MaxMembers == 2
\* ... in the small room specification, ...
SmallClients == 1
SmallRooms == 1
SmallMembers == 2
\* ... and the connections admitted over a run of the admission specification
MaxAdmClients == 12

\* ... in the rate specification: the connections admitted over a run, the
\* milliseconds the clock runs on past the first window, and the frames
\* that arrive within one interval of a second
RateClients == 1
MaxLate == 2
MaxIntervalFrames == 44

\* ... in the size specification: the connections admitted over a run and
\* the frames a connection sends
SizeClients == 1
SizeFrames == 3

\* ... in the relay specification: the connections admitted over a run and
\* the frames a connection sends
RelayClients == 2
RelayFrames == 1

\* ... in the codec specification: the connections admitted over a run and
\* the frames a connection sends
ParseClients == 1
ParseFrames == 2

\* the dispatch order: connections admitted, and frames received in a run
OrderClients == 1
OrderFrames == 3

\* crypto.randomUUID() results, in allocation order (client ids)
ClientIds == <<"A", "B", "C", "D", "E", "F", "G", "H", "I", "J", "K", "L", "M", "N", "O">>
\* crypto.randomUUID() results, in allocation order (room ids of createRoom)
RoomUuids == <<"u1", "u2", "u3", "u4">>
\* room ids a client makes up itself for JoinOrCreate
ClientRoomIds == {"r1"}
\* room codes: what a client types and what generateRoomCode can draw
Codes == {"AB12", "CD34"}
SmallCodes == {"AB12"}
\* remote addresses
Addrs == {"ip1"}
\* session descriptions and candidates: the payloads of relayed messages
Payloads == {"sdp"}
\* byte lengths of a frame of one chunk: a short one and the ones around
\* MaxMessageSize; of the second chunk after a first of HalfBytes: as many,
\* and one more
FrameBytes == {64, 10000, 10001}
HalfBytes == 5000
SecondBytes == {5000, 5001}

\* ------------------------------------------------------- program constants
MaxConnectionsPerIp == 10
MaxMessagesPerSeconds == 20
MaxMessageSize == 10000
UNKNOWN_ORIGIN == 4000
INVALID_MESSAGE == 4002
TOO_MANY_CONNECTIONS == 4029
RATE_LIMIT_EXCEEDED == 4030
\* the close code of checkMessageSize, 'Message too large'
MESSAGE_TOO_LARGE == 1009
\* let resetAt = Date.now() + 1000
RateWindow == 1000

\* null / undefined
Null == "null"
\* the empty string '' of server-authored or untargeted messages
Empty == ""

VARIABLES
  connectionCounts,  \* Map ip -> count (a function on the ips that have an entry)
  clients,           \* Map client id -> ClientInfo (roomId; the socket is sockets[id])
  rooms,             \* Map room id -> array of client ids
  roomCodeToId,      \* Map code -> room id
  roomIdToCode,      \* Map room id -> code
  sockets,           \* the admitted sockets, by the client id given to them
  nextClient,        \* number of the next client uuid
  nextRoom,          \* number of the next room uuid
  last,              \* what the handler that ran last sent, closed and threw
  now,               \* Date.now(), in milliseconds since the server started
  limiter,           \* messageCount and resetAt of each connection's handler
  arrivals,          \* per connection: a one-second interval and the frames in it
  received,          \* the frame the last handler was given, if it was given one
  dispatched,        \* the messages the last frame handler gave to handleMessage
  jobs,              \* the microtask queue: the frame handlers suspended at an await
  receipts,          \* the number of frames that have reached the message handlers
  dispatchLog        \* for each call of handleMessage by a resumed handler, its frame

vars == <<connectionCounts, clients, rooms, roomCodeToId, roomIdToCode,
          sockets, nextClient, nextRoom, last, now, limiter, arrivals, received, dispatched,
          jobs, receipts, dispatchLog>>

\* ----------------------------------------------------------- Map helpers
MapHas(m, k) == k \in DOMAIN m

MapGet(m, k) == IF k \in DOMAIN m THEN m[k] ELSE Null

MapSet(m, k, v) == [x \in DOMAIN m \cup {k} |-> IF x = k THEN v ELSE m[x]]

MapDelete(m, k) == [x \in DOMAIN m \ {k} |-> m[x]]

EmptyMap == [x \in {} |-> Null]

\* ---------------------------------------------------------- Array helpers
\* Array.prototype.indexOf: first position of x, 1-based; 0 stands for -1
IndexOf(arr, x) ==
  IF \E i \in 1..Len(arr) : arr[i] = x
  THEN CHOOSE i \in 1..Len(arr) : arr[i] = x /\ \A j \in 1..(i - 1) : arr[j] # x
  ELSE 0

RemoveAt(arr, i) == [j \in 1..(Len(arr) - 1) |-> IF j < i THEN arr[j] ELSE arr[j + 1]]

\* arr.splice(arr.indexOf(x), 1): a start of -1 counts from the end, so a
\* missing x removes the last element
SpliceIndexOf(arr, x) ==
  IF Len(arr) = 0 THEN arr
  ELSE IF IndexOf(arr, x) = 0 THEN RemoveAt(arr, Len(arr))
  ELSE RemoveAt(arr, IndexOf(arr, x))

\* if (index !== -1) room.splice(index, 1)
SpliceIfFound(arr, x) ==
  IF IndexOf(arr, x) = 0 THEN arr ELSE RemoveAt(arr, IndexOf(arr, x))

Range(arr) == {arr[i] : i \in 1..Len(arr)}

\* ---------------------------------------------------------------- messages
RelayTypes == {"Offer", "Answer", "IceCandidate"}

\* enum SignalingMessageType
SignalingMessageType ==
  [Offer |-> 0, Answer |-> 1, IceCandidate |-> 2, ClientId |-> 3, PeerList |-> 4,
   CreateRoom |-> 5, JoinRoom |-> 6, LeaveRoom |-> 7, Error |-> 8, JoinOrCreate |-> 9]

SignalingOffer(targetId, senderId, offer) ==
  [type |-> "Offer", targetId |-> targetId, senderId |-> senderId, offer |-> offer]

SignalingAnswer(targetId, senderId, answer) ==
  [type |-> "Answer", targetId |-> targetId, senderId |-> senderId, answer |-> answer]

SignalingIceCandidate(targetId, senderId, candidate) ==
  [type |-> "IceCandidate", targetId |-> targetId, senderId |-> senderId, candidate |-> candidate]

SignalingClientId(targetId, senderId, clientId) ==
  [type |-> "ClientId", targetId |-> targetId, senderId |-> senderId, clientId |-> clientId]

SignalingPeerList(targetId, senderId, peers, code, roomId) ==
  [type |-> "PeerList", targetId |-> targetId, senderId |-> senderId,
   peerList |-> peers, roomCode |-> code, roomId |-> roomId]

SignalingError(targetId, message) ==
  [type |-> "Error", targetId |-> targetId, senderId |-> Empty, errorMessage |-> message]

roomNotFound(roomCode, targetId) == SignalingError(targetId, <<"Room", roomCode, "does not exist.">>)

roomAlreadyExists(roomCode, targetId) == SignalingError(targetId, <<"Room", roomCode, "already exists.">>)

SignalingCreateRoom(senderId, roomCode) ==
  [type |-> "CreateRoom", targetId |-> Empty, senderId |-> senderId, roomCode |-> roomCode]

SignalingJoinRoom(senderId, roomCode) ==
  [type |-> "JoinRoom", targetId |-> Empty, senderId |-> senderId, roomCode |-> roomCode]

SignalingJoinOrCreateRoom(senderId, roomId) ==
  [type |-> "JoinOrCreate", targetId |-> Empty, senderId |-> senderId, roomId |-> roomId]

SignalingLeaveRoom(senderId) ==
  [type |-> "LeaveRoom", targetId |-> Empty, senderId |-> senderId]

\* a send: socket.send(message.toBuffer()) on the socket of client `to`
Send(to, message) == [to |-> to, msg |-> message]

\* ------------------------------------------------------------------- codec
\* What JSON.parse gives for the text of a chunk is a record of the members
\* that are present and not null (the code tests members with == null only,
\* which does not tell null from undefined); a text that is no JSON is the
\* record SyntaxError.
SyntaxError == [syntaxError |-> TRUE]

\* content.name: undefined (Null) for a member that is not there
Member(content, name) == IF name \in DOMAIN content THEN content[name] ELSE Null

\* the result of a parse that threw
Thrown == [type |-> "InvalidMessageException"]

\* SignalingMessage.fromJson and the fromContent it switches to
fromJson(content) ==
  IF "syntaxError" \in DOMAIN content THEN Thrown
  ELSE IF "type" \notin DOMAIN content THEN Thrown
  ELSE LET targetId == Member(content, "targetId")
           senderId == Member(content, "senderId")
       IN CASE content.type = SignalingMessageType.Offer ->
                 IF "offer" \notin DOMAIN content THEN Thrown
                 ELSE SignalingOffer(targetId, senderId, content.offer)
            [] content.type = SignalingMessageType.Answer ->
                 IF "answer" \notin DOMAIN content THEN Thrown
                 ELSE SignalingAnswer(targetId, senderId, content.answer)
            [] content.type = SignalingMessageType.IceCandidate ->
                 IF "iceCandidate" \notin DOMAIN content THEN Thrown
                 ELSE SignalingIceCandidate(targetId, senderId, content.iceCandidate)
            [] content.type = SignalingMessageType.ClientId ->
                 IF "clientId" \notin DOMAIN content THEN Thrown
                 ELSE SignalingClientId(targetId, senderId, content.clientId)
            [] content.type = SignalingMessageType.PeerList ->
                 IF {"peerList", "roomCode", "roomId"} \subseteq DOMAIN content
                 THEN SignalingPeerList(targetId, senderId, content.peerList, content.roomCode, content.roomId)
                 ELSE Thrown
            [] content.type = SignalingMessageType.CreateRoom ->
                 IF "roomCode" \notin DOMAIN content THEN Thrown
                 ELSE SignalingCreateRoom(senderId, content.roomCode)
            [] content.type = SignalingMessageType.JoinRoom ->
                 IF "roomCode" \notin DOMAIN content THEN Thrown
                 ELSE SignalingJoinRoom(senderId, content.roomCode)
            [] content.type = SignalingMessageType.LeaveRoom -> SignalingLeaveRoom(senderId)
            [] content.type = SignalingMessageType.JoinOrCreate ->
                 IF "roomId" \notin DOMAIN content THEN Thrown
                 ELSE SignalingJoinOrCreateRoom(senderId, content.roomId)
            [] content.type = SignalingMessageType.Error ->
                 IF "errorMessage" \notin DOMAIN content THEN Thrown
                 ELSE SignalingError(targetId, content.errorMessage)
            [] OTHER -> Thrown

\* a chunk of a frame: a buffer of `bytes` bytes whose text parses to content
Chunk(bytes, content) == [bytes |-> bytes, content |-> content]

\* SignalingMessage.parseMessage: the chunks are decoded in order, and the
\* first that throws ends the parse; threw tells whether one did
RECURSIVE parseFrom(_, _, _)
parseFrom(data, i, result) ==
  IF i > Len(data) THEN [threw |-> FALSE, messages |-> result]
  ELSE LET message == fromJson(data[i].content)
       IN IF message = Thrown THEN [threw |-> TRUE, messages |-> <<>>]
          ELSE parseFrom(data, i + 1, Append(result, message))

parseMessage(data) == parseFrom(data, 1, <<>>)

\* toContent of the relayed classes, as JSON.stringify writes it: a member
\* that is undefined is left out
toContent(message) ==
  LET base == [type |-> SignalingMessageType[message.type],
               targetId |-> message.targetId, senderId |-> message.senderId]
      payload == CASE message.type = "Offer" -> [offer |-> message.offer]
                   [] message.type = "Answer" -> [answer |-> message.answer]
                   [] message.type = "IceCandidate" -> [iceCandidate |-> message.candidate]
      all == [k \in DOMAIN base \cup DOMAIN payload |->
                IF k \in DOMAIN base THEN base[k] ELSE payload[k]]
  IN [k \in {x \in DOMAIN all : x \in {"targetId", "senderId"} => all[x] # Null} |-> all[k]]

\* ------------------------------------------------------- directory state
\* The room operations are functions from a directory state
\*   d = [rooms, roomCodeToId, roomIdToCode, clients, nextRoom]
\* to an outcome: the new directory state, the sends made in order, the close
\* code passed to socket.close (0 when it is not called) and whether a
\* TypeError was thrown.
Directory == [rooms |-> rooms, roomCodeToId |-> roomCodeToId,
              roomIdToCode |-> roomIdToCode, clients |-> clients,
              nextRoom |-> nextRoom]

Outcome(d, sent, close, threw) == [d |-> d, sent |-> sent, close |-> close, threw |-> threw]

\* broadcast: one send per entry of the member array whose client is registered
RECURSIVE broadcastFrom(_, _, _, _)
broadcastFrom(d, message, peers, i) ==
  IF i > Len(peers) THEN <<>>
  ELSE IF MapHas(d.clients, peers[i])
       THEN <<Send(peers[i], message)>> \o broadcastFrom(d, message, peers, i + 1)
       ELSE broadcastFrom(d, message, peers, i + 1)

broadcast(d, message, roomId) ==
  IF ~MapHas(d.rooms, roomId) THEN <<>>
  ELSE broadcastFrom(d, message, d.rooms[roomId], 1)

broadcastPeerList(d, roomId) ==
  IF ~MapHas(d.rooms, roomId) \/ ~MapHas(d.roomIdToCode, roomId) THEN <<>>
  ELSE broadcast(d, SignalingPeerList(Empty, Empty, d.rooms[roomId], d.roomIdToCode[roomId], roomId), roomId)

\* forwardMessage looking up the sender where it should look up the target
forwardMessageToSender(d, message) ==
  IF ~MapHas(d.clients, message.senderId) THEN Outcome(d, <<>>, 0, FALSE)
  ELSE Outcome(d, <<Send(message.senderId, message)>>, 0, FALSE)

forwardMessage(d, message) ==
  IF ~MapHas(d.clients, message.targetId) THEN Outcome(d, <<>>, 0, FALSE)
  ELSE Outcome(d, <<Send(message.targetId, message)>>, 0, FALSE)

addRoom(d, id, code, peers) ==
  [d EXCEPT !.rooms = MapSet(d.rooms, id, peers),
            !.roomCodeToId = MapSet(d.roomCodeToId, code, id),
            !.roomIdToCode = MapSet(d.roomIdToCode, id, code)]

SetRoomId(d, clientId, roomId) ==
  [d EXCEPT !.clients = MapSet(d.clients, clientId, [roomId |-> roomId])]

\* createRoom looking the code up in the wrong map
createRoomWrongMap(d, message, socket) ==
  IF MapHas(d.roomIdToCode, message.roomCode)
  THEN Outcome(d, <<Send(socket, roomAlreadyExists(message.roomCode, message.senderId))>>, 0, FALSE)
  ELSE LET id == RoomUuids[d.nextRoom]
           d1 == addRoom([d EXCEPT !.nextRoom = d.nextRoom + 1], id, message.roomCode, <<message.senderId>>)
           d2 == SetRoomId(d1, message.senderId, id)
       IN Outcome(d2, broadcastPeerList(d2, id), 0, FALSE)

createRoom(d, message, socket) ==
  IF MapHas(d.roomCodeToId, message.roomCode)
  THEN Outcome(d, <<Send(socket, roomAlreadyExists(message.roomCode, message.senderId))>>, 0, FALSE)
  ELSE LET id == RoomUuids[d.nextRoom]
           d1 == addRoom([d EXCEPT !.nextRoom = d.nextRoom + 1], id, message.roomCode, <<message.senderId>>)
           d2 == SetRoomId(d1, message.senderId, id)
       IN Outcome(d2, broadcastPeerList(d2, id), 0, FALSE)

\* rooms.get(roomId)! is undefined for a room id without a room, and
\* peers.push then throws a TypeError before anything is changed
joinRoomById(d, roomId, clientId) ==
  IF ~MapHas(d.rooms, roomId) THEN Outcome(d, <<>>, 0, TRUE)
  ELSE LET d1 == [d EXCEPT !.rooms = MapSet(d.rooms, roomId, Append(d.rooms[roomId], clientId))]
           d2 == SetRoomId(d1, clientId, roomId)
       IN Outcome(d2, broadcastPeerList(d2, roomId), 0, FALSE)

joinRoom(d, message, socket) ==
  LET id == MapGet(d.roomCodeToId, message.roomCode)
  IN IF id = Null
     THEN Outcome(d, <<Send(socket, roomNotFound(message.roomCode, message.senderId))>>, 0, FALSE)
     ELSE joinRoomById(d, id, message.senderId)

\* generateRoomCode draws RoomCodeLength characters at random: any of the codes
generateRoomCode(codes) == codes

\* the values generateRoomCode can return while message is handled: it is
\* called by joinOrCreateRoom for a room id without a room, and not otherwise
GeneratedCodes(message, codes) ==
  IF message.type = "JoinOrCreate" /\ ~MapHas(rooms, message.roomId)
  THEN generateRoomCode(codes)
  ELSE {Null}

\* code is the value generateRoomCode returned, used when the room is new
joinOrCreateRoom(d, message, code) ==
  IF ~MapHas(d.rooms, message.roomId)
  THEN joinRoomById(addRoom(d, message.roomId, code, <<>>), message.roomId, message.senderId)
  ELSE joinRoomById(d, message.roomId, message.senderId)

\* leaveRoom without the deletion of a room left empty
leaveRoomKeepEmpty(d, message) ==
  LET roomCode == d.clients[message.senderId].roomId
  IN IF roomCode = Null THEN Outcome(d, <<>>, 0, FALSE)
     ELSE IF ~MapHas(d.rooms, roomCode) THEN Outcome(d, <<>>, 0, FALSE)
     ELSE LET d1 == [d EXCEPT !.rooms = MapSet(d.rooms, roomCode, SpliceIndexOf(d.rooms[roomCode], message.senderId))]
          IN Outcome(d1, broadcastPeerList(d1, roomCode), 0, FALSE)

leaveRoom(d, message) ==
  LET roomCode == d.clients[message.senderId].roomId
  IN IF roomCode = Null THEN Outcome(d, <<>>, 0, FALSE)
     ELSE IF ~MapHas(d.rooms, roomCode) THEN Outcome(d, <<>>, 0, FALSE)
     ELSE LET room == SpliceIndexOf(d.rooms[roomCode], message.senderId)
          IN IF Len(room) = 0
             THEN Outcome([d EXCEPT !.rooms = MapDelete(d.rooms, roomCode)], <<>>, 0, FALSE)
             ELSE LET d1 == [d EXCEPT !.rooms = MapSet(d.rooms, roomCode, room)]
                  IN Outcome(d1, broadcastPeerList(d1, roomCode), 0, FALSE)

handleMessage(d, message, socket, code) ==
  IF ~MapHas(d.clients, message.senderId) THEN Outcome(d, <<>>, 0, FALSE)
  ELSE CASE message.type = "CreateRoom" -> createRoom(d, message, socket)
         [] message.type = "JoinRoom" -> joinRoom(d, message, socket)
         [] message.type = "JoinOrCreate" -> joinOrCreateRoom(d, message, code)
         [] message.type = "LeaveRoom" -> leaveRoom(d, message)
         [] message.type \in RelayTypes -> forwardMessage(d, message)
         [] OTHER -> Outcome(d, <<>>, INVALID_MESSAGE, FALSE)

\* ------------------------------------------------------- the frame handler
RECURSIVE SumBytes(_, _)
SumBytes(buffer, i) == IF i > Len(buffer) THEN 0 ELSE buffer[i].bytes + SumBytes(buffer, i + 1)

\* checkMessageSize taking the byte length of the first chunk for the size
checkMessageSizeFirstChunk(buffer) == ~(buffer[1].bytes > MaxMessageSize)

\* checkMessageSize: FALSE when it closes the socket with 'Message too large'
checkMessageSize(buffer) == ~(SumBytes(buffer, 1) > MaxMessageSize)

\* if (now > resetAt) { messageCount = 0; resetAt = now; }
resetWindow(lim, t) ==
  IF t > lim.resetAt THEN [messageCount |-> 0, resetAt |-> t] ELSE lim

\* if (messageCount > MaxMessagesPerSeconds): the frame is refused
rateExceeded(lim) == lim.messageCount > MaxMessagesPerSeconds

\* what a run of the dispatch loop has done so far: the outcome of the calls
\* of handleMessage and the messages they were given
Run(o, handled) == [o |-> o, handled |-> handled]

\* for (const message of messages) handleMessage(message, socket), from the
\* i-th message on; gen[i] is what generateRoomCode returns for the i-th. A
\* call that throws ends the loop. The socket's first close code is kept.
RECURSIVE dispatchFrom(_, _, _, _, _)
dispatchFrom(run, messages, socket, gen, i) ==
  IF i > Len(messages) \/ run.o.threw THEN run
  ELSE LET r == handleMessage(run.o.d, messages[i], socket, gen[i])
           o == Outcome(r.d, run.o.sent \o r.sent,
                        IF run.o.close # 0 THEN run.o.close ELSE r.close, r.threw)
       IN dispatchFrom(Run(o, Append(run.handled, messages[i])), messages, socket, gen, i + 1)

\* the body of socket.on('message') for the frame `buffer` at time t, lim
\* being messageCount and resetAt before it: the limiter after it and the
\* run of the dispatch loop (empty when a gate or the parse stops the frame)
onMessage(d, lim, t, buffer, socket, gen) ==
  LET lim1 == resetWindow(lim, t)
      lim2 == [lim1 EXCEPT !.messageCount = @ + 1]
      parsed == parseMessage(buffer)
  IN IF rateExceeded(lim1)
     THEN [limiter |-> lim1, run |-> Run(Outcome(d, <<>>, RATE_LIMIT_EXCEEDED, FALSE), <<>>)]
     ELSE IF ~checkMessageSize(buffer)
     THEN [limiter |-> lim2, run |-> Run(Outcome(d, <<>>, MESSAGE_TOO_LARGE, FALSE), <<>>)]
     ELSE IF parsed.threw
     THEN [limiter |-> lim2, run |-> Run(Outcome(d, <<>>, INVALID_MESSAGE, FALSE), <<>>)]
     ELSE [limiter |-> lim2,
           run |-> dispatchFrom(Run(Outcome(d, <<>>, 0, FALSE), <<>>), parsed.messages, socket, gen, 1)]

\* the awaits between the call of parseMessage and the dispatch loop, from
\* the i-th chunk on: parseMessage awaits fromBuffer once for each chunk, up
\* to the first that does not decode and rejects it, and the handler awaits
\* parseMessage once
RECURSIVE awaitsFrom(_, _)
awaitsFrom(data, i) ==
  IF i > Len(data) THEN 1
  ELSE IF fromJson(data[i].content) = Thrown THEN 2
  ELSE 1 + awaitsFrom(data, i + 1)

awaitSteps(data) == awaitsFrom(data, 1)

\* a handler suspended at an await: the frame it was given, the number of
\* the frame among the frames received, and the awaits still to resume from
Job(socket, buffer, frame, left) ==
  [socket |-> socket, buffer |-> buffer, frame |-> frame, left |-> left]

\* the body of socket.on('message') before its await: the limiter after it
\* and the close code of the gate that refused the frame (0: none did)
beforeAwait(lim, t, buffer) ==
  LET lim1 == resetWindow(lim, t)
      lim2 == [lim1 EXCEPT !.messageCount = @ + 1]
  IN IF rateExceeded(lim1) THEN [limiter |-> lim1, close |-> RATE_LIMIT_EXCEEDED]
     ELSE IF ~checkMessageSize(buffer) THEN [limiter |-> lim2, close |-> MESSAGE_TOO_LARGE]
     ELSE [limiter |-> lim2, close |-> 0]

\* the body of socket.on('message') after its await, on the directory d it
\* finds when it resumes: the catch block or the dispatch loop
afterAwait(d, buffer, socket, gen) ==
  LET parsed == parseMessage(buffer)
  IN IF parsed.threw THEN Run(Outcome(d, <<>>, INVALID_MESSAGE, FALSE), <<>>)
     ELSE dispatchFrom(Run(Outcome(d, <<>>, 0, FALSE), <<>>), parsed.messages, socket, gen, 1)

\* the one-second interval [since, since + RateWindow) a frame at time t
\* falls in, and the number of frames in it with this one: the interval that
\* began with the connection or with the first frame after the one before
countArrival(a, t) ==
  IF t >= a.since + RateWindow THEN [since |-> t, frames |-> 1]
  ELSE [a EXCEPT !.frames = @ + 1]

\* rooms.forEach of removeClient: the first occurrence of clientId is cut
\* out of every member array, and the rooms left empty are deleted
RemoveFromRooms(rs, clientId) ==
  LET cut == [id \in DOMAIN rs |-> SpliceIfFound(rs[id], clientId)]
      toDelete == {id \in DOMAIN rs : Len(cut[id]) = 0}
  IN [id \in DOMAIN rs \ toDelete |-> cut[id]]

\* removeClient without the else branch that stores the decremented count
ReleaseCountNoSet(counts, ip) ==
  LET count == (IF MapHas(counts, ip) THEN counts[ip] ELSE 0) - 1
  IN IF count <= 0 THEN MapDelete(counts, ip) ELSE counts

\* const count = (connectionCounts.get(ip) ?? 0) - 1, then delete or set
ReleaseCount(counts, ip) ==
  LET count == (IF MapHas(counts, ip) THEN counts[ip] ELSE 0) - 1
  IN IF count <= 0 THEN MapDelete(counts, ip) ELSE MapSet(counts, ip, count)

\* checkConnectionCount: 0 when the connection is admitted, else the close code
checkConnectionCount(counts, ip) ==
  IF ip = Null THEN UNKNOWN_ORIGIN
  ELSE IF (IF MapHas(counts, ip) THEN counts[ip] ELSE 0) > MaxConnectionsPerIp
       THEN TOO_MANY_CONNECTIONS
       ELSE 0

\* connectionCounts.set(ip, count + 1)
AcquireCount(counts, ip) ==
  MapSet(counts, ip, (IF MapHas(counts, ip) THEN counts[ip] ELSE 0) + 1)

\* ------------------------------------------------------------------ inputs
AllocatedClients == {ClientIds[i] : i \in 1..(nextClient - 1)}
AllocatedRooms == {RoomUuids[i] : i \in 1..(nextRoom - 1)}

\* sender and target ids a client can write: the ids handed out so far (the
\* id of a connection that has closed is the id of no registered client)
WritableIds == AllocatedClients

RoomMessages(codes) ==
  {SignalingCreateRoom(s, c) : s \in WritableIds, c \in codes}
  \cup {SignalingJoinRoom(s, c) : s \in WritableIds, c \in codes}
  \cup {SignalingJoinOrCreateRoom(s, r) : s \in WritableIds, r \in ClientRoomIds \cup AllocatedRooms}
  \cup {SignalingLeaveRoom(s) : s \in WritableIds}

\* the caps on the counters and arrays that have no bound in the program
WithinBounds(message, maxRooms, maxMembers) ==
  /\ message.type = "CreateRoom" =>
       (~MapHas(roomCodeToId, message.roomCode) => nextRoom <= maxRooms)
  /\ message.type = "JoinRoom" =>
       (MapHas(roomCodeToId, message.roomCode) /\ MapHas(rooms, roomCodeToId[message.roomCode])
          => Len(rooms[roomCodeToId[message.roomCode]]) < maxMembers)
  /\ message.type = "JoinOrCreate" =>
       (MapHas(rooms, message.roomId) => Len(rooms[message.roomId]) < maxMembers)

\* ----------------------------------------------------------------- actions
\* what a handler did to the outside: the sends it made in order, the code
\* it passed to socket.close (0: no close) and whether it threw
Effect(sent, close, threw) == [sent |-> sent, close |-> close, threw |-> threw]

Init ==
  /\ connectionCounts = EmptyMap
  /\ clients = EmptyMap
  /\ rooms = EmptyMap
  /\ roomCodeToId = EmptyMap
  /\ roomIdToCode = EmptyMap
  /\ sockets = EmptyMap
  /\ nextClient = 1
  /\ nextRoom = 1
  /\ last = Effect(<<>>, 0, FALSE)
  /\ now = 0
  /\ limiter = EmptyMap
  /\ arrivals = EmptyMap
  /\ received = <<>>
  /\ dispatched = <<>>
  /\ jobs = <<>>
  /\ receipts = 0
  /\ dispatchLog = <<>>

\* server.on('connection'): a socket from address ip, at most cap admitted
Connection(ip, cap) ==
  LET verdict == checkConnectionCount(connectionCounts, ip)
      clientId == ClientIds[nextClient]
  IN IF verdict # 0
     THEN /\ last' = Effect(<<>>, verdict, FALSE)
          /\ received' = <<>>
          /\ dispatched' = <<>>
          /\ UNCHANGED <<connectionCounts, clients, rooms, roomCodeToId, roomIdToCode,
                         sockets, nextClient, nextRoom, now, limiter, arrivals,
                         jobs, receipts, dispatchLog>>
     ELSE /\ nextClient <= cap
          /\ connectionCounts' = AcquireCount(connectionCounts, ip)
          /\ clients' = MapSet(clients, clientId, [roomId |-> Null])
          /\ sockets' = MapSet(sockets, clientId, [ip |-> ip, state |-> "open", code |-> 0])
          /\ nextClient' = nextClient + 1
          /\ last' = Effect(<<Send(clientId, SignalingClientId(clientId, Empty, clientId))>>, 0, FALSE)
          /\ limiter' = MapSet(limiter, clientId, [messageCount |-> 0, resetAt |-> now + RateWindow])
          /\ arrivals' = MapSet(arrivals, clientId, [since |-> now, frames |-> 0])
          /\ received' = <<>>
          /\ dispatched' = <<>>
          /\ UNCHANGED <<rooms, roomCodeToId, roomIdToCode, nextRoom, now,
                         jobs, receipts, dispatchLog>>

\* handleMessage for one decoded message that arrived on socket
HandleMessage(socket, message, code, maxRooms, maxMembers) ==
  /\ socket \in DOMAIN sockets
  /\ sockets[socket].state \in {"open", "closing"}
  /\ WithinBounds(message, maxRooms, maxMembers)
  /\ \E o \in {handleMessage(Directory, message, socket, code)} :
        /\ rooms' = o.d.rooms
        /\ roomCodeToId' = o.d.roomCodeToId
        /\ roomIdToCode' = o.d.roomIdToCode
        /\ clients' = o.d.clients
        /\ nextRoom' = o.d.nextRoom
        /\ sockets' = IF o.close # 0 /\ sockets[socket].state = "open"
                      THEN [sockets EXCEPT ![socket].state = "closing", ![socket].code = o.close]
                      ELSE sockets
        /\ last' = Effect(o.sent, o.close, o.threw)
        /\ UNCHANGED <<connectionCounts, nextClient, now, limiter, arrivals, received, dispatched,
                       jobs, receipts, dispatchLog>>

\* socket.on('close'): removeClient(clientId, request.socket.remoteAddress)
Close(socket) ==
  /\ socket \in DOMAIN sockets
  /\ sockets[socket].state \in {"open", "closing"}
  /\ connectionCounts' = ReleaseCount(connectionCounts, sockets[socket].ip)
  /\ clients' = MapDelete(clients, socket)
  /\ rooms' = RemoveFromRooms(rooms, socket)
  /\ sockets' = [sockets EXCEPT ![socket].state = "closed"]
  /\ last' = Effect(<<>>, 0, FALSE)
  /\ received' = <<>>
  /\ dispatched' = <<>>
  /\ UNCHANGED <<roomCodeToId, roomIdToCode, nextClient, nextRoom, now, limiter, arrivals,
                 jobs, receipts, dispatchLog>>

\* socket.on('message'): the frame `buffer` arrives on socket; gen[i] is the
\* code generateRoomCode draws for the i-th message if it draws one
Message(socket, buffer, gen, maxFrames, maxRooms, maxMembers) ==
  /\ socket \in DOMAIN sockets
  /\ sockets[socket].state \in {"open", "closing"}
  /\ arrivals[socket].frames < maxFrames
  /\ \E r \in {onMessage(Directory, limiter[socket], now, buffer, socket, gen)} :
        /\ r.run.o.d.nextRoom <= maxRooms + 1
        /\ \A id \in DOMAIN r.run.o.d.rooms : Len(r.run.o.d.rooms[id]) <= maxMembers
        /\ limiter' = [limiter EXCEPT ![socket] = r.limiter]
        /\ arrivals' = [arrivals EXCEPT ![socket] = countArrival(@, now)]
        /\ rooms' = r.run.o.d.rooms
        /\ roomCodeToId' = r.run.o.d.roomCodeToId
        /\ roomIdToCode' = r.run.o.d.roomIdToCode
        /\ clients' = r.run.o.d.clients
        /\ nextRoom' = r.run.o.d.nextRoom
        /\ sockets' = IF r.run.o.close # 0 /\ sockets[socket].state = "open"
                      THEN [sockets EXCEPT ![socket].state = "closing", ![socket].code = r.run.o.close]
                      ELSE sockets
        /\ last' = Effect(r.run.o.sent, r.run.o.close, r.run.o.threw)
        /\ received' = buffer
        /\ dispatched' = r.run.handled
        /\ UNCHANGED <<connectionCounts, nextClient, now, jobs, receipts, dispatchLog>>

\* the clock moves on by dt milliseconds; the times of a run are those up
\* to `late` milliseconds after the start and after the end of the first window
Tick(dt, late) ==
  /\ now + dt <= RateWindow + late
  /\ (now + dt) % RateWindow <= late
  /\ now' = now + dt
  /\ UNCHANGED <<connectionCounts, clients, rooms, roomCodeToId, roomIdToCode,
                 sockets, nextClient, nextRoom, last, limiter, arrivals, received, dispatched,
                 jobs, receipts, dispatchLog>>

\* socket.on('message') up to its await: the frame `buffer` is received on
\* socket, passes the gates or is refused, and the handler is suspended.
\* The frames of one read are given to their handlers one after the other,
\* before any suspended handler resumes; a frame of a later read finds no
\* handler suspended.
Receipt(socket, buffer, maxFrames) ==
  /\ socket \in DOMAIN sockets
  /\ sockets[socket].state \in {"open", "closing"}
  /\ receipts < maxFrames
  /\ \A i \in 1..Len(jobs) :
        jobs[i].socket = socket /\ jobs[i].left = awaitSteps(jobs[i].buffer)
  /\ \E b \in {beforeAwait(limiter[socket], now, buffer)} :
        /\ limiter' = [limiter EXCEPT ![socket] = b.limiter]
        /\ arrivals' = [arrivals EXCEPT ![socket] = countArrival(@, now)]
        /\ receipts' = receipts + 1
        /\ jobs' = IF b.close # 0 THEN jobs
                   ELSE Append(jobs, Job(socket, buffer, receipts + 1, awaitSteps(buffer)))
        /\ sockets' = IF b.close # 0 /\ sockets[socket].state = "open"
                      THEN [sockets EXCEPT ![socket].state = "closing", ![socket].code = b.close]
                      ELSE sockets
        /\ last' = Effect(<<>>, b.close, FALSE)
        /\ received' = buffer
        /\ dispatched' = <<>>
        /\ UNCHANGED <<connectionCounts, clients, rooms, roomCodeToId, roomIdToCode,
                       nextClient, nextRoom, now, dispatchLog>>

\* the microtask at the head of the queue resumes parseMessage at an await
\* of fromBuffer: it runs to its next await, or returns or throws to the
\* handler, whose resumption goes to the end of the queue
ResumeParse ==
  /\ jobs # <<>>
  /\ Head(jobs).left > 1
  /\ jobs' = Append(Tail(jobs), [Head(jobs) EXCEPT !.left = @ - 1])
  /\ UNCHANGED <<connectionCounts, clients, rooms, roomCodeToId, roomIdToCode, sockets,
                 nextClient, nextRoom, last, now, limiter, arrivals, received, dispatched,
                 receipts, dispatchLog>>

\* the microtask at the head of the queue resumes the handler at its await
\* of parseMessage: the catch block closes the socket, or the loop gives
\* each message to handleMessage
ResumeHandler(gen, maxRooms, maxMembers) ==
  /\ jobs # <<>>
  /\ Head(jobs).left = 1
  /\ \E job \in {Head(jobs)} :
      \E r \in {afterAwait(Directory, job.buffer, job.socket, gen)} :
        /\ r.o.d.nextRoom <= maxRooms + 1
        /\ \A id \in DOMAIN r.o.d.rooms : Len(r.o.d.rooms[id]) <= maxMembers
        /\ jobs' = Tail(jobs)
        /\ rooms' = r.o.d.rooms
        /\ roomCodeToId' = r.o.d.roomCodeToId
        /\ roomIdToCode' = r.o.d.roomIdToCode
        /\ clients' = r.o.d.clients
        /\ nextRoom' = r.o.d.nextRoom
        /\ sockets' = IF r.o.close # 0 /\ sockets[job.socket].state = "open"
                      THEN [sockets EXCEPT ![job.socket].state = "closing", ![job.socket].code = r.o.close]
                      ELSE sockets
        /\ last' = Effect(r.o.sent, r.o.close, r.o.threw)
        /\ received' = job.buffer
        /\ dispatched' = r.handled
        /\ dispatchLog' = dispatchLog \o [i \in 1..Len(r.handled) |->
                                            [socket |-> job.socket, frame |-> job.frame]]
        /\ UNCHANGED <<connectionCounts, nextClient, now, limiter, arrivals, receipts>>

Connect == \E ip \in Addrs \cup {Null} : Connection(ip, MaxClients)

Receive == \E socket \in AllocatedClients, message \in RoomMessages(Codes) :
             \E code \in GeneratedCodes(message, Codes) :
               HandleMessage(socket, message, code, MaxRooms, MaxMembers)

Disconnect == \E socket \in AllocatedClients : Close(socket)

Next == Connect \/ Receive \/ Disconnect

Spec == Init /\ [][Next]_vars

\* the same server with fewer connections and a single room code, for the
\* properties of one handler run, which depend on the state it starts in only
SmallConnect == \E ip \in Addrs \cup {Null} : Connection(ip, SmallClients)

SmallReceive == \E socket \in AllocatedClients, message \in RoomMessages(SmallCodes) :
                  \E code \in GeneratedCodes(message, SmallCodes) :
                    HandleMessage(socket, message, code, SmallRooms, SmallMembers)

SmallDisconnect == \E socket \in AllocatedClients : Close(socket)

NextSmall == SmallConnect \/ SmallReceive \/ SmallDisconnect

SpecSmall == Init /\ [][NextSmall]_vars

\* what generateRoomCode draws for the messages of a frame, one code each
Draws(buffer, codes) == [1..Len(buffer) -> codes]

\* the texts of the messages a client writes, as JSON.parse reads them
JsonCreateRoom(senderId, roomCode) ==
  [type |-> SignalingMessageType.CreateRoom, senderId |-> senderId, roomCode |-> roomCode]

JsonJoinRoom(senderId, roomCode) ==
  [type |-> SignalingMessageType.JoinRoom, senderId |-> senderId, roomCode |-> roomCode]

JsonJoinOrCreate(senderId, roomId) ==
  [type |-> SignalingMessageType.JoinOrCreate, senderId |-> senderId, roomId |-> roomId]

JsonLeaveRoom(senderId) ==
  [type |-> SignalingMessageType.LeaveRoom, senderId |-> senderId]

JsonOffer(targetId, senderId, offer) ==
  [type |-> SignalingMessageType.Offer, targetId |-> targetId, senderId |-> senderId, offer |-> offer]

JsonAnswer(targetId, senderId, answer) ==
  [type |-> SignalingMessageType.Answer, targetId |-> targetId, senderId |-> senderId, answer |-> answer]

JsonIceCandidate(targetId, senderId, candidate) ==
  [type |-> SignalingMessageType.IceCandidate, targetId |-> targetId, senderId |-> senderId,
   iceCandidate |-> candidate]

\* the relayed messages a client can write, to and in the name of the ids
\* handed out so far
RelayContents ==
  UNION {{JsonOffer(t, s, p), JsonAnswer(t, s, p), JsonIceCandidate(t, s, p)} :
           t \in WritableIds, s \in WritableIds, p \in Payloads}

\* a frame of one short chunk
Single(content) == <<Chunk(64, content)>>

\* relaying: connections that send relayed messages and create a room
RelayConnect == \E ip \in Addrs \cup {Null} : Connection(ip, RelayClients)

RelayMessage == \E socket \in AllocatedClients :
                  \E content \in RelayContents \cup {JsonCreateRoom(socket, c) : c \in SmallCodes} :
                    Message(socket, Single(content), <<Null>>, RelayFrames, SmallRooms, SmallMembers)

RelayDisconnect == \E socket \in AllocatedClients : Close(socket)

NextRelay == RelayConnect \/ RelayMessage \/ RelayDisconnect

SpecRelay == Init /\ [][NextRelay]_vars

JsonClientId(targetId, senderId, clientId) ==
  [type |-> SignalingMessageType.ClientId, targetId |-> targetId, senderId |-> senderId,
   clientId |-> clientId]

JsonPeerList(targetId, senderId, peers, code, roomId) ==
  [type |-> SignalingMessageType.PeerList, targetId |-> targetId, senderId |-> senderId,
   peerList |-> peers, roomCode |-> code, roomId |-> roomId]

JsonError(targetId, senderId, message) ==
  [type |-> SignalingMessageType.Error, targetId |-> targetId, senderId |-> senderId,
   errorMessage |-> message]

\* well-formed messages of the types the server writes, in the sender's name
ServerContents(senderId) ==
  {JsonClientId(Empty, senderId, senderId), JsonError(Empty, senderId, <<"text">>)}
  \cup {JsonPeerList(Empty, senderId, <<senderId>>, c, r) : c \in SmallCodes, r \in ClientRoomIds}

\* texts that do not decode: no JSON, no type, a type that is none of the
\* enum, and a CreateRoom without its roomCode
BadContents(senderId) ==
  {SyntaxError,
   [senderId |-> senderId],
   [type |-> 10, senderId |-> senderId],
   [type |-> SignalingMessageType.CreateRoom, senderId |-> senderId]}

\* room messages in the sender's name
RoomContents(senderId) ==
  {JsonLeaveRoom(senderId)}
  \cup {JsonCreateRoom(senderId, c) : c \in SmallCodes}
  \cup {JsonJoinRoom(senderId, c) : c \in SmallCodes}
  \cup {JsonJoinOrCreate(senderId, r) : r \in ClientRoomIds}

\* the codec and the dispatcher: frames of one short chunk and of two, of
\* room messages, server-authored types and texts that do not decode
ParseContents(senderId) ==
  RoomContents(senderId) \cup ServerContents(senderId) \cup BadContents(senderId)

ParseBuffers(senderId) ==
  {<<Chunk(64, c)>> : c \in ParseContents(senderId)}
  \cup {<<Chunk(64, c1), Chunk(64, c2)>> : c1 \in ParseContents(senderId), c2 \in ParseContents(senderId)}

ParseConnect == \E ip \in Addrs \cup {Null} : Connection(ip, ParseClients)

ParseMessage == \E socket \in AllocatedClients :
                  \E buffer \in ParseBuffers(socket) : \E gen \in Draws(buffer, SmallCodes) :
                    Message(socket, buffer, gen, ParseFrames, SmallRooms, SmallMembers)

ParseDisconnect == \E socket \in AllocatedClients : Close(socket)

NextParse == ParseConnect \/ ParseMessage \/ ParseDisconnect

SpecParse == Init /\ [][NextParse]_vars

\* the handlers at their awaits: frames of one chunk and of two, each chunk
\* a room message of the sender or no JSON. A connection and a close are
\* events of the loop, which runs them when no microtask is left.
OrderContents(senderId) ==
  {JsonLeaveRoom(senderId), SyntaxError} \cup {JsonCreateRoom(senderId, c) : c \in SmallCodes}

OrderBuffers(senderId) ==
  {<<Chunk(64, c)>> : c \in OrderContents(senderId)}
  \cup {<<Chunk(64, c1), Chunk(64, c2)>> : c1 \in OrderContents(senderId), c2 \in OrderContents(senderId)}

OrderConnect == jobs = <<>> /\ \E ip \in Addrs \cup {Null} : Connection(ip, OrderClients)

OrderReceipt == \E socket \in AllocatedClients :
                  \E buffer \in OrderBuffers(socket) : Receipt(socket, buffer, OrderFrames)

OrderResumeHandler == /\ jobs # <<>>
                      /\ \E gen \in Draws(Head(jobs).buffer, SmallCodes) :
                           ResumeHandler(gen, SmallRooms, SmallMembers)

OrderDisconnect == jobs = <<>> /\ \E socket \in AllocatedClients : Close(socket)

NextOrder == OrderConnect \/ OrderReceipt \/ ResumeParse \/ OrderResumeHandler \/ OrderDisconnect

SpecOrder == Init /\ [][NextOrder]_vars

\* the size gate: frames of one chunk and of two, of the byte lengths
\* around MaxMessageSize, each chunk a CreateRoom of the sender or no JSON
SizeContents(senderId) == {JsonCreateRoom(senderId, c) : c \in SmallCodes} \cup {SyntaxError}

SizeBuffers(senderId) ==
  {<<Chunk(bytes, content)>> : bytes \in FrameBytes, content \in SizeContents(senderId)}
  \cup {<<Chunk(HalfBytes, c1), Chunk(bytes, c2)>> :
          bytes \in SecondBytes, c1 \in SizeContents(senderId), c2 \in SizeContents(senderId)}

SizeConnect == \E ip \in Addrs \cup {Null} : Connection(ip, SizeClients)

SizeMessage == \E socket \in AllocatedClients :
                 \E buffer \in SizeBuffers(socket) : \E gen \in Draws(buffer, SmallCodes) :
                   Message(socket, buffer, gen, SizeFrames, SmallRooms, SmallMembers)

SizeDisconnect == \E socket \in AllocatedClients : Close(socket)

NextSize == SizeConnect \/ SizeMessage \/ SizeDisconnect

SpecSize == Init /\ [][NextSize]_vars

\* the rate gate on its own: a connection that sends the same small frame, a
\* LeaveRoom in its own name, at any pace
KeepAlive(senderId) ==
  <<Chunk(64, JsonLeaveRoom(senderId))>>

RateConnect == \E ip \in Addrs \cup {Null} : Connection(ip, RateClients)

RateTick == \E dt \in {1, RateWindow} : Tick(dt, MaxLate)

RateMessage == \E socket \in AllocatedClients :
                 Message(socket, KeepAlive(socket), <<Null>>, MaxIntervalFrames, SmallRooms, SmallMembers)

RateDisconnect == \E socket \in AllocatedClients : Close(socket)

NextRate == RateConnect \/ RateTick \/ RateMessage \/ RateDisconnect

SpecRate == Init /\ [][NextRate]_vars

\* connection admission on its own, up to and past the per-address limit
AdmConnect == \E ip \in Addrs \cup {Null} : Connection(ip, MaxAdmClients)

AdmDisconnect == \E socket \in AllocatedClients : Close(socket)

NextAdmission == AdmConnect \/ AdmDisconnect

SpecAdmission == Init /\ [][NextAdmission]_vars

\* ------------------------------------------------------------- properties
\* the code maps to a room that exists
ActiveCode(code) == MapHas(roomCodeToId, code) /\ MapHas(rooms, roomCodeToId[code])

\* some existing room carries the code
CodeOfSomeRoom(code) == \E id \in DOMAIN rooms : MapGet(roomIdToCode, id) = code

RoomsOf(clientId) == {id \in DOMAIN rooms : clientId \in Range(rooms[id])}

Count(ip) == IF MapHas(connectionCounts, ip) THEN connectionCounts[ip] ELSE 0

OpenFrom(ip) == {c \in DOMAIN sockets : sockets[c].ip = ip /\ sockets[c].state # "closed"}

\* C1: no room's member list ever contains the same connection id twice.
C1_NoDuplicateMembers ==
  \A id \in DOMAIN rooms :
    \A i, j \in 1..Len(rooms[id]) : i # j => rooms[id][i] # rooms[id][j]

\* C2: a connection id appears in the member list of at most one room.
C2_AtMostOneRoom ==
  \A c \in AllocatedClients : Cardinality(RoomsOf(c)) <= 1

\* C3: a step that removes a room (its last member left or disconnected)
\* removes both directions of its code<->id mapping with it, so the code is
\* free for a later CreateRoom.
C3_MappingRemovedWithRoom ==
  [][\A id \in DOMAIN rooms :
       id \notin DOMAIN rooms' =>
         /\ id \notin DOMAIN roomIdToCode'
         /\ \A c \in DOMAIN roomCodeToId' : roomCodeToId'[c] # id]_vars

\* C4: the id of a connection that has closed is in no room's member list,
\* in the state after the close and in every later state.
C4_ClosedInNoRoom ==
  \A c \in DOMAIN sockets : sockets[c].state = "closed" => RoomsOf(c) = {}

\* C5: when a member of a room disconnects and the room still has members,
\* every surviving member is sent a peer list with the updated member list.
C5_DisconnectBroadcasts ==
  [][\A socket \in AllocatedClients :
       Close(socket) =>
         \A id \in DOMAIN rooms :
           (socket \in Range(rooms[id]) /\ id \in DOMAIN rooms') =>
             \A m \in Range(rooms'[id]) \cap DOMAIN clients' :
               \E i \in 1..Len(last'.sent) :
                 last'.sent[i] = Send(m, SignalingPeerList(Empty, Empty, rooms'[id], roomIdToCode'[id], id))]_vars

\* C6: a JoinRoom from a registered sender whose code is the code of no
\* existing room sends a RoomNotFound error to the requester and changes no
\* member list, no mapping and no roomId.
C6_UnknownCodeRoomNotFound ==
  [][\A senderId \in DOMAIN clients, roomCode \in Codes :
       ~CodeOfSomeRoom(roomCode) =>
         \A socket \in AllocatedClients :
           HandleMessage(socket, SignalingJoinRoom(senderId, roomCode), Null, MaxRooms, MaxMembers) =>
             /\ last'.sent = <<Send(socket, roomNotFound(roomCode, senderId))>>
             /\ UNCHANGED <<rooms, roomCodeToId, roomIdToCode, clients>>]_vars

C8_PeerListToEveryMember ==
  [][\A socket \in AllocatedClients, message \in RoomMessages(Codes) :
       (\E code \in GeneratedCodes(message, Codes) :
          HandleMessage(socket, message, code, MaxRooms, MaxMembers)) =>
         \A id \in DOMAIN rooms' :
           (id \notin DOMAIN rooms \/ rooms'[id] # rooms[id]) =>
             \A m \in Range(rooms'[id]) :
               \E i \in 1..Len(last'.sent) :
                 last'.sent[i] = Send(m, SignalingPeerList(Empty, Empty, rooms'[id], roomIdToCode'[id], id))]_vars

\* C9: a connection from an address that has MaxConnectionsPerIp
\* connections open is closed with TOO_MANY_CONNECTIONS and not registered.
C9_RejectedAtLimit ==
  [][\A ip \in Addrs :
       (Cardinality(OpenFrom(ip)) = MaxConnectionsPerIp /\ Connection(ip, MaxAdmClients)) =>
         /\ last'.close = TOO_MANY_CONNECTIONS
         /\ UNCHANGED <<clients, sockets, connectionCounts, nextClient>>]_vars

\* C10: the count of an address is the number of its admitted connections
\* that have not closed and its entry is dropped at zero; it goes up by one
\* only when a connection is admitted and down by one only when an admitted
\* connection closes; connections are refused exactly while the count is
\* above MaxConnectionsPerIp, which the count exceeds by one at most, so a
\* close in a refusing state admits exactly one more connection.
C10_Accounting ==
  /\ [](\A ip \in Addrs :
          /\ Count(ip) = Cardinality(OpenFrom(ip))
          /\ Count(ip) <= MaxConnectionsPerIp + 1
          /\ MapHas(connectionCounts, ip) => connectionCounts[ip] > 0)
  /\ [][\A ip \in Addrs :
          /\ Count(ip)' > Count(ip) =>
               /\ Connection(ip, MaxAdmClients)
               /\ Count(ip)' = Count(ip) + 1
               /\ nextClient' = nextClient + 1
          /\ Count(ip)' < Count(ip) =>
               /\ \E socket \in AllocatedClients : sockets[socket].ip = ip /\ Close(socket)
               /\ Count(ip)' = Count(ip) - 1
          /\ Connection(ip, MaxAdmClients) =>
               /\ last'.close = TOO_MANY_CONNECTIONS <=> Count(ip) = MaxConnectionsPerIp + 1
               /\ last'.close = 0 <=> Count(ip) <= MaxConnectionsPerIp
               /\ last'.close = 0 <=> Count(ip)' = Count(ip) + 1]_vars

\* refusals have resumed after a close let one more connection in: twelve
\* connections were admitted in all, and the address is refused again
C10_Witness ==
  /\ nextClient = MaxConnectionsPerIp + 3
  /\ last.close = TOO_MANY_CONNECTIONS
  /\ \E ip \in Addrs : Count(ip) = MaxConnectionsPerIp + 1

\* C11: whenever more than MaxMessagesPerSeconds frames have arrived on a
\* connection within an interval of one second, in the first second after
\* the connect or later, the connection has been closed by the server with
\* RATE_LIMIT_EXCEEDED.
C11_RateLimitCloses ==
  \A c \in DOMAIN arrivals :
    (arrivals[c].frames > MaxMessagesPerSeconds /\ sockets[c].state # "closed") =>
      /\ sockets[c].state = "closing"
      /\ sockets[c].code = RATE_LIMIT_EXCEEDED

\* C12: a frame that the rate gate lets through and whose chunks have more
\* than MaxMessageSize bytes in all closes the socket with MESSAGE_TOO_LARGE,
\* is neither parsed (text that is no JSON gets no INVALID_MESSAGE) nor
\* dispatched, and leaves rooms, mappings, registry and counts as they were;
\* a frame of MaxMessageSize bytes is not closed as too large and goes on to
\* the parse and the dispatch.
C12_OversizeRejected ==
  [][\A socket \in AllocatedClients :
       (/\ received' # <<>>
        /\ ~rateExceeded(resetWindow(limiter[socket], now))
        /\ \E gen \in Draws(received', SmallCodes) :
              Message(socket, received', gen, SizeFrames, SmallRooms, SmallMembers)) =>
         /\ SumBytes(received', 1) > MaxMessageSize =>
               /\ last' = Effect(<<>>, MESSAGE_TOO_LARGE, FALSE)
               /\ sockets'[socket].state = "closing"
               /\ sockets[socket].state = "open" => sockets'[socket].code = MESSAGE_TOO_LARGE
               /\ dispatched' = <<>>
               /\ UNCHANGED <<rooms, roomCodeToId, roomIdToCode, clients, connectionCounts, nextRoom>>
         /\ SumBytes(received', 1) = MaxMessageSize =>
               /\ last'.close # MESSAGE_TOO_LARGE
               /\ IF parseMessage(received').threw
                  THEN last'.close = INVALID_MESSAGE
                  ELSE /\ dispatched' # <<>>
                       /\ dispatched'[1] = parseMessage(received').messages[1]]_vars

\* a socket has just been closed as too large while the registry still
\* holds its client and no room exists
C12_Witness ==
  \E c \in DOMAIN clients :
    /\ sockets[c].state = "closing"
    /\ sockets[c].code = MESSAGE_TOO_LARGE
    /\ last.close = MESSAGE_TOO_LARGE
    /\ received # <<>>
    /\ SumBytes(received, 1) > MaxMessageSize
    /\ dispatched = <<>>

\* the frame is one chunk with an Offer, an Answer or an IceCandidate
RelayedFrame(buffer) == Len(buffer) = 1 /\ buffer[1].content \in RelayContents

\* the sends of the last handler are this one send
SentOnly(to, content) ==
  /\ Len(last'.sent) = 1
  /\ last'.sent[1].to = to
  /\ toContent(last'.sent[1].msg) = content

\* C13 as stated: an Offer, Answer or IceCandidate that is dispatched (it
\* came through the gates and the parse) is sent on, with type,
\* targetId, senderId and payload as they came, to the connection registered
\* under targetId and to no other; with no connection under targetId nothing
\* is sent and the sender's socket stays as it was; either way rooms,
\* mappings, registry and roomIds are unchanged.
C13_RelayedToTarget ==
  [][\A socket \in AllocatedClients :
       (/\ RelayedFrame(received')
        /\ dispatched' # <<>>
        /\ Message(socket, received', <<Null>>, RelayFrames, SmallRooms, SmallMembers)) =>
         /\ IF MapHas(clients, received'[1].content.targetId)
            THEN SentOnly(received'[1].content.targetId, received'[1].content)
            ELSE last'.sent = <<>> /\ sockets' = sockets
         /\ last'.close = 0 /\ ~last'.threw
         /\ UNCHANGED <<rooms, roomCodeToId, roomIdToCode, clients, nextRoom>>]_vars

\* C13 amended: the same for a message whose senderId is the id of a
\* registered connection; a message whose senderId is not is sent to nobody.
C13_RelayedForRegisteredSender ==
  [][\A socket \in AllocatedClients :
       (/\ RelayedFrame(received')
        /\ dispatched' # <<>>
        /\ Message(socket, received', <<Null>>, RelayFrames, SmallRooms, SmallMembers)) =>
         /\ IF /\ MapHas(clients, received'[1].content.senderId)
               /\ MapHas(clients, received'[1].content.targetId)
            THEN SentOnly(received'[1].content.targetId, received'[1].content)
            ELSE last'.sent = <<>> /\ sockets' = sockets
         /\ last'.close = 0 /\ ~last'.threw
         /\ UNCHANGED <<rooms, roomCodeToId, roomIdToCode, clients, nextRoom>>]_vars

\* an IceCandidate has just been relayed from one registered connection to
\* another while a room exists
C13_Witness ==
  /\ rooms # EmptyMap
  /\ \E t \in DOMAIN clients, s \in DOMAIN clients :
        /\ t # s
        /\ \E p \in Payloads : last.sent = <<Send(t, SignalingIceCandidate(t, s, p))>>

\* C14: every room that exists has at least one entry in its member array.
C14_NoEmptyRoom ==
  \A id \in DOMAIN rooms : Len(rooms[id]) >= 1

\* a registered client's room is gone: its LeaveRoom took the last member
\* out and the room was deleted in that step
C14_Witness ==
  \E c \in DOMAIN clients :
    /\ clients[c].roomId # Null
    /\ ~MapHas(rooms, clients[c].roomId)
    /\ sockets[c].state = "open"

\* the entries of a member array that are not c, in order
Without(arr, c) == SelectSeq(arr, LAMBDA x : x # c)

\* the member array of a room after the step; empty for a room deleted by it
MembersAfter(id) == IF id \in DOMAIN rooms' THEN rooms'[id] ELSE <<>>

\* C15: a LeaveRoom handled for the registered connection c takes no
\* connection other than c out of any room: the other entries of every
\* member array are after it what they were before, whatever came before.
C15_LeaveRemovesOnlySender ==
  [][\A c \in DOMAIN clients, socket \in AllocatedClients :
       HandleMessage(socket, SignalingLeaveRoom(c), Null, MaxRooms, MaxMembers) =>
         /\ DOMAIN rooms' \subseteq DOMAIN rooms
         /\ \A id \in DOMAIN rooms : Without(MembersAfter(id), c) = Without(rooms[id], c)]_vars

\* C16: no handler run ends in an error that escapes it: a lookup that
\* misses ends in a no-op, a drop or an Error message.
C16_NoUncaughtError == ~last.threw

\* C17: no two rooms that exist have the same code.
C17_CodesUnique ==
  \A i, j \in DOMAIN rooms :
    i # j => MapGet(roomIdToCode, i) # MapGet(roomIdToCode, j)

\* C18: roomCodeToId and roomIdToCode are inverse to each other: a code maps
\* to a room id exactly if that room id maps to the code.
C18_MapsInverse ==
  /\ \A code \in DOMAIN roomCodeToId : MapGet(roomIdToCode, roomCodeToId[code]) = code
  /\ \A id \in DOMAIN roomIdToCode : MapGet(roomCodeToId, roomIdToCode[id]) = id

\* C19: a frame of one well-formed ClientId, PeerList or Error message in
\* the name of the connection it arrives on takes the default branch of the
\* dispatcher: the socket is closed with INVALID_MESSAGE, and rooms,
\* mappings and registry are unchanged.
C19_ServerTypesClose ==
  [][\A socket \in AllocatedClients :
       (/\ Len(received') = 1
        /\ received'[1].content \in ServerContents(socket)
        /\ dispatched' # <<>>
        /\ Message(socket, received', <<Null>>, ParseFrames, SmallRooms, SmallMembers)) =>
         /\ last' = Effect(<<>>, INVALID_MESSAGE, FALSE)
         /\ sockets'[socket].state = "closing"
         /\ UNCHANGED <<rooms, roomCodeToId, roomIdToCode, clients, connectionCounts, nextRoom>>]_vars

\* C20: a frame with a chunk that does not decode closes the socket with
\* INVALID_MESSAGE and none of its messages is dispatched, those of the
\* chunks before the bad one included; the messages of a frame whose chunks
\* all decode are dispatched one by one in the order of the chunks.
C20_AllOrNothingParse ==
  [][\A socket \in AllocatedClients :
       (/\ received' # <<>>
        /\ ~rateExceeded(resetWindow(limiter[socket], now))
        /\ checkMessageSize(received')
        /\ \E gen \in Draws(received', SmallCodes) :
              Message(socket, received', gen, ParseFrames, SmallRooms, SmallMembers)) =>
         IF parseMessage(received').threw
         THEN /\ last' = Effect(<<>>, INVALID_MESSAGE, FALSE)
              /\ sockets'[socket].state = "closing"
              /\ dispatched' = <<>>
              /\ UNCHANGED <<rooms, roomCodeToId, roomIdToCode, clients, connectionCounts, nextRoom>>
         ELSE dispatched' = parseMessage(received').messages]_vars

\* C21: the messages received on one connection are dispatched in receipt
\* order and one at a time: of two calls of handleMessage for frames of the
\* same connection, the earlier call is for the frame received first, or
\* both are for the same frame. Every message of a frame is therefore
\* dispatched before any message of a frame received after it.
C21_ReceiptOrder ==
  \A i \in 1..Len(dispatchLog) : \A j \in (i + 1)..Len(dispatchLog) :
    dispatchLog[i].socket = dispatchLog[j].socket => dispatchLog[i].frame <= dispatchLog[j].frame

\* the number of entries of the member array arr that are the id c
Occurrences(arr, c) == Len(SelectSeq(arr, LAMBDA x : x = c))

\* the member array of a room before the step; empty for a room made by it
MembersBefore(id) == IF id \in DOMAIN rooms THEN rooms[id] ELSE <<>>

\* C22: a message that arrives on the socket of connection X changes the
\* room membership and the roomId of X only: for every other registered
\* connection c, whatever senderId the message carries, roomId of c and the
\* entries for c in every member array are after the handler what they
\* were before it.
C22_OnlyOwnMembership ==
  [][\A socket \in AllocatedClients, message \in RoomMessages(Codes) :
       \A code \in GeneratedCodes(message, Codes) :
         HandleMessage(socket, message, code, MaxRooms, MaxMembers) =>
           \A c \in DOMAIN clients \ {socket} :
             /\ clients'[c].roomId = clients[c].roomId
             /\ \A id \in DOMAIN rooms \cup DOMAIN rooms' :
                   Occurrences(MembersAfter(id), c) = Occurrences(MembersBefore(id), c)]_vars
====
